---- MODULE Spec2Model ----
(***************************************************************************)
(* A model of the live source-reload engine of reloading/reloading.py:     *)
(* the loop wrapper (_reloading_loop), the function wrapper                *)
(* (_reloading_function.wrapped), the file reader, the locator and the     *)
(* interactive exception handler, together with the two things outside     *)
(* the process that drive them: an editor rewriting the source file and    *)
(* an operator typing a line at each prompt.                               *)
(***************************************************************************)
EXTENDS Integers, Sequences, FiniteSets, TLC

(***************************************************************************)
(* Bounds of the model.                                                    *)
(***************************************************************************)
MaxLen == 2

MaxEvery == 2

MaxEdits == 2

MaxPrompts == 2

\* how many elements of the endless sequence are followed
MaxIter == 3

(***************************************************************************)
(* Values.                                                                 *)
(***************************************************************************)
\* a name that is not bound in a scope
Undef == "<unbound>"

\* the elements an iterable yields / the arguments a call passes
Elems == {"p", "q"}

RECURSIVE SeqsUpTo(_)
SeqsUpTo(n) ==
  IF n = 0 THEN {<<>>}
  ELSE LET shorter == SeqsUpTo(n - 1)
       IN shorter \cup {Append(s, e) : s \in {t \in shorter : Len(t) = n - 1}, e \in Elems}

\* the line of the caller's file on which `for ... in reloading(...)` stands
\* when the program is started (loop_frame_info[2])
CallLine == 9

\* the line of `def f` in that file
FuncLine == 6

(***************************************************************************)
(* Statements of a fragment.  A body is a sequence of statements           *)
(*   print(val, name)   name = val   assert name == val   raise val        *)
(*   return (val, name)   continue                                         *)
(***************************************************************************)
Stmt(op, name, val) == [op |-> op, name |-> name, val |-> val]

BodyA == << Stmt("print", "epoch", "A"), Stmt("assign", "state", "CHANGED_A") >>

BodyB == << Stmt("print", "epoch", "B"), Stmt("assign", "state", "CHANGED_B") >>

BodyKeep == << Stmt("assert", "fpath", "DON'T CHANGE ME"), Stmt("print", "epoch", "K") >>

BodyFail == << Stmt("assign", "state", "BROKEN"), Stmt("raise", "", "RuntimeError") >>

\* bodies of the decorated function f(epoch)
FnBodyA == << Stmt("print", "epoch", "A"), Stmt("return", "epoch", "A") >>

FnBodyB == << Stmt("print", "epoch", "B"), Stmt("return", "epoch", "B") >>

FnBodyKeep == << Stmt("assert", "fpath", "DON'T CHANGE ME"), Stmt("return", "epoch", "K") >>

FnBodyFail == << Stmt("raise", "", "RuntimeError") >>

\* the bodies of two loops that share one header
BodyT1 == << Stmt("print", "epoch", "T1") >>

BodyT2 == << Stmt("print", "epoch", "T2") >>

\* the body of a loop over another target
BodyY == << Stmt("print", "step", "Y") >>

\* a loop body that ends an iteration early
BodyCont == << Stmt("print", "epoch", "C"), Stmt("continue", "", ""),
              Stmt("assign", "state", "SKIPPED") >>

\* a function body with a stray `continue`
FnBodyCont == << Stmt("continue", "", ""), Stmt("return", "epoch", "C") >>

\* bodies of several definitions of one name
FnBodyFar == << Stmt("print", "epoch", "F"), Stmt("return", "epoch", "F") >>

FnBodyU == << Stmt("print", "epoch", "U"), Stmt("return", "epoch", "U") >>

FnBodyNear == << Stmt("print", "epoch", "N"), Stmt("return", "epoch", "N") >>

\* the value None
NoneValue == << "None" >>

(***************************************************************************)
(* Source texts.  A text is what one read of the file can return: its      *)
(* length in characters matters only as empty / non-empty, `ok` says       *)
(* whether ast.parse accepts it, `fors` are its `for` statements and       *)
(* `defs` its function definitions, both in ast.walk order.                *)
(***************************************************************************)
\* an ast.Name / ast.Tuple node of a loop target
Name(id) == [type |-> "Name", id |-> id, elts |-> << >>]

Tuple(elts) == [type |-> "Tuple", id |-> "", elts |-> elts]

\* an ast.Call node whose func is the name fn, as in `@reloading(every=2)`
Call(fn) == [type |-> "Call", func |-> Name(fn)]

\* an ast.Attribute node, as in `@functools.cache`
Attribute(value, attr) == [type |-> "Attribute", value |-> Name(value), attr |-> attr]

\* an ast.For node whose iter is a call of the name fn: `for t in fn(args):`
For(lineno, target, fn, args, body) ==
  [lineno |-> lineno, target |-> target, iter |-> "Call", functype |-> "Name",
   func |-> fn, args |-> args, body |-> body]

\* `for t in value.attr():` - the iter is a call of an ast.Attribute
ForAttr(lineno, target, value, attr, body) ==
  [lineno |-> lineno, target |-> target, iter |-> "Call", functype |-> "Attribute",
   func |-> value \o "." \o attr, args |-> "", body |-> body]

\* `for t in id:` - the iter is no call
ForName(lineno, target, id, body) ==
  [lineno |-> lineno, target |-> target, iter |-> "Name", functype |-> "none",
   func |-> id, args |-> "", body |-> body]

Def(lineno, name, decorators, body) ==
  [lineno |-> lineno, name |-> name, decorator_list |-> decorators, body |-> body]

Text(empty, ok, fors, defs) == [empty |-> empty, ok |-> ok, fors |-> fors, defs |-> defs]

TextIds == {"A", "B", "KEEP", "FAIL", "BAD", "EMPTY", "NOLOOP"}

Content(id) ==
  CASE id = "A" ->
         Text(FALSE, TRUE, << For(CallLine, Name("epoch"), "reloading", "range", BodyA) >>,
              << Def(FuncLine, "f", << Name("reloading") >>, FnBodyA) >>)
    [] id = "B" ->
         Text(FALSE, TRUE, << For(CallLine, Name("epoch"), "reloading", "range", BodyB) >>,
              << Def(FuncLine, "f", << Name("reloading") >>, FnBodyB) >>)
    [] id = "KEEP" ->
         Text(FALSE, TRUE, << For(CallLine, Name("epoch"), "reloading", "range", BodyKeep) >>,
              << Def(FuncLine, "f", << Name("reloading") >>, FnBodyKeep) >>)
    [] id = "FAIL" ->
         Text(FALSE, TRUE, << For(CallLine, Name("epoch"), "reloading", "range", BodyFail) >>,
              << Def(FuncLine, "f", << Name("reloading") >>, FnBodyFail) >>)
    [] id = "BAD" -> Text(FALSE, FALSE, << >>, << >>)
    [] id = "EMPTY" -> Text(TRUE, FALSE, << >>, << >>)
    [] id = "NOLOOP" -> Text(FALSE, TRUE, << >>, << >>)
    [] id = "EVER" ->
         Text(FALSE, TRUE,
              << For(CallLine, Name("epoch"), "reloading", "forever=True", BodyA) >>, << >>)
    [] id = "EVER_FAIL" ->
         Text(FALSE, TRUE,
              << For(CallLine, Name("epoch"), "reloading", "forever=True", BodyFail) >>, << >>)
    [] id = "EVER_CONT" ->
         Text(FALSE, TRUE,
              << For(CallLine, Name("epoch"), "reloading", "forever=True", BodyCont) >>, << >>)
    [] id = "TWINS" ->
         Text(FALSE, TRUE,
              << For(CallLine, Name("epoch"), "reloading", "range", BodyT1),
                 For(CallLine + 11, Name("epoch"), "reloading", "range", BodyT2) >>,
              << >>)
    [] id = "SHIFT" ->
         Text(FALSE, TRUE,
              << For(CallLine, Name("step"), "reloading", "range", BodyY),
                 For(CallLine + 2, Name("epoch"), "reloading", "range", BodyT1),
                 For(CallLine + 13, Name("epoch"), "reloading", "range", BodyT2) >>,
              << >>)
    [] id = "MOVED" ->
         Text(FALSE, TRUE,
              << For(CallLine + 2, Name("epoch"), "reloading", "range", BodyT1),
                 For(CallLine + 13, Name("epoch"), "reloading", "range", BodyT2) >>,
              << >>)
    [] id = "ITEMS" ->
         Text(FALSE, TRUE,
              << For(CallLine, Name("epoch"), "reloading", "range", BodyB),
                 ForAttr(CallLine + 4, Name("step"), "d", "items", BodyY) >>,
              << >>)
    [] id = "OTHERS" ->
         Text(FALSE, TRUE,
              << For(CallLine - 6, Name("step"), "range", "3", BodyY),
                 For(CallLine, Name("epoch"), "reloading", "range", BodyB),
                 ForName(CallLine + 4, Name("step"), "xs", BodyY) >>,
              << >>)
    [] id = "CONT" ->
         Text(FALSE, TRUE, << For(CallLine, Name("epoch"), "reloading", "range", BodyCont) >>,
              << Def(FuncLine, "f", << Name("reloading") >>, FnBodyA) >>)
    [] id = "FCONT" ->
         Text(FALSE, TRUE, << For(CallLine, Name("epoch"), "reloading", "range", BodyA) >>,
              << Def(FuncLine, "f", << Name("reloading") >>, FnBodyCont) >>)
    [] id = "NEAR" ->
         Text(FALSE, TRUE, << >>,
              << Def(FuncLine - 4, "f", << Name("reloading") >>, FnBodyFar),
                 Def(FuncLine - 2, "f", << >>, FnBodyU),
                 Def(FuncLine + 1, "f", << Call("reloading") >>, FnBodyNear) >>)
    [] id = "DECO" ->
         Text(FALSE, TRUE, << >>,
              << Def(FuncLine + 3, "f",
                     << Name("trace"), Call("reloading"), Call("cache"), Name("reloading"),
                        Name("timed") >>,
                     FnBodyB) >>)
    [] id = "ATTR" ->
         Text(FALSE, TRUE, << >>,
              << Def(FuncLine + 1, "f", << Attribute("functools", "cache"), Name("reloading") >>,
                     FnBodyB) >>)

(***************************************************************************)
(* Pure functions of reloading.py.                                         *)
(***************************************************************************)
\* names bound in the caller's scope when the loop is entered, in the order
\* chain(caller_locals.keys(), caller_globals.keys()) yields them (at module
\* level both are the same dictionary)
ModuleKeys == << "reloading", "fpath", "state" >>

\* the scopes a caller may enter the loop with: further names before or after
\* the module's own, among them the names the engine would pick in a smaller
\* scope, a name as long as the longest, and a shorter one
KeyLists ==
  { ModuleKeys,
    ModuleKeys \o << "reloading0" >>,
    << "reloading0" >> \o ModuleKeys,
    ModuleKeys \o << "reloading0", "reloading00" >>,
    << "reloadinx" >> \o ModuleKeys,
    ModuleKeys \o << "reloadinx", "go" >> }

\* max(used, key=len): the first element of greatest length
RECURSIVE MaxByLen(_)
MaxByLen(used) ==
  IF Len(used) = 1 THEN used[1]
  ELSE LET m == MaxByLen(Tail(used))
       IN IF Len(used[1]) >= Len(m) THEN used[1] ELSE m

\* variant: the longest name itself, without the suffix
unique_name_no_suffix(used) == MaxByLen(used)

\* variant: the first name with the suffix
unique_name_first(used) == used[1] \o "0"

unique_name(used) == MaxByLen(used) \o "0"

\* ", ".join(names)
RECURSIVE Join(_)
Join(names) ==
  IF names = << >> THEN ""
  ELSE IF Len(names) = 1 THEN names[1]
  ELSE names[1] \o ", " \o Join(Tail(names))

\* ", ".join(names) for strings kept as the sequences of their lexical tokens
RECURSIVE JoinTokens(_)
JoinTokens(names) ==
  IF names = << >> THEN << >>
  ELSE IF Len(names) = 1 THEN names[1]
  ELSE names[1] \o << ", " >> \o JoinTokens(Tail(names))

\* the string is kept as the sequence of its lexical tokens: names, ", ", "("
\* and ")"
RECURSIVE format_itervars(_)
format_itervars(ast_node) ==
  IF ast_node.type = "Name" THEN << ast_node.id >>
  ELSE JoinTokens([k \in 1..Len(ast_node.elts) |->
                     IF ast_node.elts[k].type = "Name" THEN << ast_node.elts[k].id >>
                     ELSE << "(" >> \o format_itervars(ast_node.elts[k]) \o << ")" >>])

\* ast.dump of a loop target
RECURSIVE DumpTarget(_)
DumpTarget(node) ==
  IF node.type = "Name" THEN "Name(" \o node.id \o ")"
  ELSE "Tuple(" \o Join([k \in 1..Len(node.elts) |-> DumpTarget(node.elts[k])]) \o ")"

get_loop_id(ast_node) ==
  DumpTarget(ast_node.target) \o "__" \o "Call(" \o ast_node.func \o ", " \o ast_node.args \o ")"

Abs(n) == IF n < 0 THEN -n ELSE n

\* the candidate (node, dis) pairs in ast.walk order
RECURSIVE Candidates(_, _, _)
Candidates(fors, lineno, loop_id) ==
  IF fors = << >> THEN << >>
  ELSE LET node == Head(fors)
           rest == Candidates(Tail(fors), lineno, loop_id)
       IN IF /\ node.iter = "Call"
             /\ node.func = "reloading"
             /\ \/ (loop_id # "None" /\ loop_id = get_loop_id(node))
                \/ node.lineno = lineno
          THEN << [node |-> node, dis |-> Abs(node.lineno - lineno)] >> \o rest
          ELSE rest

\* variant: the last candidate in walk order, whatever its distance
FirstNearest_last(cands) == cands[Len(cands)]

\* list.sort(key=dis) followed by [0]: the first candidate of least distance
RECURSIVE FirstNearest(_)
FirstNearest(cands) ==
  IF Len(cands) = 1 THEN cands[1]
  ELSE LET m == FirstNearest(Tail(cands))
       IN IF cands[1].dis <= m.dis THEN cands[1] ELSE m

\* the `for` nodes on which the walk's test `node.iter.func.id == "reloading"`
\* raises AttributeError: the iter is a call, of something that has no id
NoFuncId(fors) ==
  {k \in 1..Len(fors) : fors[k].iter = "Call" /\ fors[k].functype # "Name"}

\* variant: the key of a loop found again is the key it was looked up with
isolate_loop_keeps_id(tree, lineno, loop_id) ==
  IF NoFuncId(tree.fors) # {}
  THEN [found |-> FALSE, raised |-> "AttributeError", body |-> << >>,
        target |-> Name(""), id |-> "None"]
  ELSE LET candidate_nodes == Candidates(tree.fors, lineno, loop_id)
       IN IF Len(candidate_nodes) < 1
          THEN [found |-> FALSE, raised |-> "LookupError", body |-> << >>,
                target |-> Name(""), id |-> "None"]
          ELSE LET loop_node == FirstNearest(candidate_nodes).node
               IN [found |-> TRUE, raised |-> "none", body |-> loop_node.body,
                   target |-> loop_node.target,
                   id |-> IF loop_id = "None" THEN get_loop_id(loop_node) ELSE loop_id]

\* raised names the exception the function ends with, if any
isolate_loop_body_and_get_itervars(tree, lineno, loop_id) ==
  IF NoFuncId(tree.fors) # {}
  THEN [found |-> FALSE, raised |-> "AttributeError", body |-> << >>,
        target |-> Name(""), id |-> "None"]
  ELSE LET candidate_nodes == Candidates(tree.fors, lineno, loop_id)
       IN IF Len(candidate_nodes) < 1
          THEN [found |-> FALSE, raised |-> "LookupError", body |-> << >>,
                target |-> Name(""), id |-> "None"]
          ELSE LET loop_node == FirstNearest(candidate_nodes).node
               IN [found |-> TRUE, raised |-> "none", body |-> loop_node.body,
                   target |-> loop_node.target, id |-> get_loop_id(loop_node)]

\* str.lower on the operator's line
Lower(signal) ==
  CASE signal = "K" -> "k"
    [] signal = "E" -> "e"
    [] OTHER -> signal

\* what handle_exception does with the line typed: return True, raise, return False
handle_exception(signal) ==
  LET signal_lower == Lower(signal)
  IN IF signal_lower = "k" THEN "True"
     ELSE IF signal_lower = "e" THEN "raise"
     ELSE "False"

\* the lines an operator may type
Inputs == {"", "k", "K", "e", "E", "x"}

\* exec(code, globals, locals): the statements run in order against the scope
\* they are handed, up to the first exception
RECURSIVE RunLog(_, _, _, _)
RunLog(stmts, scope, printed, log) ==
  IF stmts = << >>
  THEN [env |-> scope, out |-> printed, exc |-> "none", ret |-> NoneValue, log |-> log]
  ELSE LET s == Head(stmts)
       IN CASE s.op = "print" ->
                 RunLog(Tail(stmts), scope, Append(printed, << s.val, scope[s.name] >>), log)
            [] s.op = "assign" ->
                 RunLog(Tail(stmts), [scope EXCEPT ![s.name] = s.val], printed,
                        Append(log, << s.name, s.val >>))
            [] s.op = "assert" ->
                 IF scope[s.name] = s.val THEN RunLog(Tail(stmts), scope, printed, log)
                 ELSE [env |-> scope, out |-> printed, exc |-> "AssertionError",
                       ret |-> NoneValue, log |-> log]
            [] s.op = "raise" ->
                 [env |-> scope, out |-> printed, exc |-> s.val, ret |-> NoneValue,
                  log |-> log]
            [] s.op = "return" ->
                 [env |-> scope, out |-> printed, exc |-> "none",
                  ret |-> << s.val, scope[s.name] >>, log |-> log]
            [] s.op = "continue" ->
                 [env |-> scope, out |-> printed, exc |-> "none", ret |-> NoneValue,
                  log |-> log]

\* log: the assignments the run executed, in order
Run(stmts, scope, printed) == RunLog(stmts, scope, printed, << >>)

\* the value each name was last assigned by the statements of log
RECURSIVE Replay(_, _)
Replay(log, last) ==
  IF log = << >> THEN last
  ELSE Replay(Tail(log), [last EXCEPT ![Head(log)[1]] = Head(log)[2]])

\* the line fn.__code__ records for the decorated function (codeInfos["lineNumber"]):
\* that of its first decorator
DefLine == 5

\* the decorators get_decorator_name has a name for: a Name, or a Call of a
\* Name; for any other node `dec_node.func.id` raises AttributeError
Named(dec_node) ==
  \/ dec_node.type = "Name"
  \/ dec_node.type = "Call" /\ dec_node.func.type = "Name"

get_decorator_name(dec_node) ==
  IF dec_node.type = "Name" THEN dec_node.id ELSE dec_node.func.id

\* variant: only the bare marker is removed, `@reloading(...)` stays
strip_bare_marker_only(decorator_list) ==
  SelectSeq(decorator_list, LAMBDA dec : dec # Name("reloading"))

\* the decorator list with every decorator named reloading removed
strip_reloading_decorator(decorator_list) ==
  SelectSeq(decorator_list, LAMBDA dec : get_decorator_name(dec) # "reloading")

\* variant: every definition of the name is a candidate
HasMarker_any(node) == TRUE

\* "reloading" in [get_decorator_name(dec) for dec in node.decorator_list]
HasMarker(node) ==
  \E k \in 1..Len(node.decorator_list) : get_decorator_name(node.decorator_list[k]) = "reloading"

\* the definitions named funcname one of whose decorators has no name: building
\* the list of decorator names raises AttributeError on them
Unnamed(defs, funcname) ==
  {k \in 1..Len(defs) :
     /\ defs[k].name = funcname
     /\ \E j \in 1..Len(defs[k].decorator_list) : ~Named(defs[k].decorator_list[j])}

\* the (addrDistance, node) pairs of the marked definitions named funcname
RECURSIVE NodeList(_, _, _)
NodeList(defs, funcname, lineNumber) ==
  IF defs = << >> THEN << >>
  ELSE LET node == Head(defs)
           rest == NodeList(Tail(defs), funcname, lineNumber)
       IN IF node.name = funcname /\ HasMarker(node)
          THEN << [node |-> node, dis |-> Abs(lineNumber - node.lineno)] >> \o rest
          ELSE rest

\* found = FALSE stands for the `return False` of isolate_function_def, after
\* which get_function_def_code and get_reloaded_function return None; raised
\* names the exception the walk ends with, if any
isolate_function_def(funcname, tree, lineNumber) ==
  IF Unnamed(tree.defs, funcname) # {}
  THEN [found |-> FALSE, raised |-> "AttributeError", body |-> << >>,
        decorator_list |-> << >>]
  ELSE LET nodeList == NodeList(tree.defs, funcname, lineNumber)
       IN IF nodeList = << >>
          THEN [found |-> FALSE, raised |-> "none", body |-> << >>,
                decorator_list |-> << >>]
          ELSE LET node == FirstNearest(nodeList).node
               IN [found |-> TRUE, raised |-> "none", body |-> node.body,
                   decorator_list |-> strip_reloading_decorator(node.decorator_list)]

\* compile(tree, ..., "exec") of an isolated loop body: `continue`, `break`
\* and `return` have lost the loop and the function they stood in
CompilesAsModule(body) ==
  \A k \in 1..Len(body) : body[k].op \notin {"continue", "break", "return"}

\* compile of an isolated definition: `return` is at home, `continue` and
\* `break` outside a loop are not
CompilesAsDef(body) ==
  \A k \in 1..Len(body) : body[k].op \notin {"continue", "break"}

\* variant: the clause catches nothing
Catches_none(clause, e) == FALSE

\* `except <clause>:` - whether the clause catches the exception e; the
\* classes are those the engine raises: SyntaxError, LookupError, AttributeError
Catches(clause, e) ==
  \/ clause = e
  \/ clause = "Exception"

\* a callable, or None
None == [isNone |-> TRUE, body |-> << >>, decorator_list |-> << >>]

Function(body, decorators) == [isNone |-> FALSE, body |-> body, decorator_list |-> decorators]

\* what `reloading(...)` hands back to the caller's `for` statement
List(items) == [kind |-> "list", items |-> items]

Decorator == [kind |-> "no_iter_partial", items |-> << >>]

NoPrompt == [cause |-> "none", answer |-> "none", cycle |-> -1, exc |-> "none"]

(***************************************************************************)
(* State.                                                                  *)
(***************************************************************************)
VARIABLES
  file,            \* the text the source file holds on disk
  edits,           \* how often the editor has rewritten it
  prompts,         \* how many lines the operator has typed
  mode,            \* "loop": reloading(seq), "func": @reloading def f
  every,           \* the cadence argument
  seq,             \* the iterable (loop mode) / the argument of each call (function mode)
  pc,              \* where the engine stands
  i,               \* enumerate's index in _reloading_loop
  source,          \* the text load_file returned last
  compiled_body,   \* _reloading_loop's compiled_body
  itervars,        \* _reloading_loop's itervars
  loop_target,          \* observation: the target node of the loop located last
  loop_id,         \* _reloading_loop's loop_id
  unique,          \* _reloading_loop's unique
  caller_env,      \* the caller's scope (caller_locals is caller_globals at module level)
  func,            \* state["func"] of _reloading_function
  reloads,         \* state["reloads"] of _reloading_function
  calls,           \* how many calls of the wrapper have returned
  retrying,        \* function mode: the reload runs inside the except clause
  results,         \* what each finished call of the wrapper returned
  exc,             \* the exception being handled
  returned,        \* what reloading(seq) returned
  result,          \* how the caller's statement ended
  out,             \* standard output: (tag, value) per print
  loaded_at,       \* observation: the cycle in which the last reload completed
  stale,           \* observation: the cached fragment raised and was not reloaded since
  last_prompt,     \* observation: the last prompt of this cycle and its answer
  read_at,         \* observation: the cycle in which load_file last returned
  failures,        \* observation: how many executions of a fragment raised
  last_assign,     \* observation: the value each name was last assigned by a loop body
  program,         \* which caller program runs, and with it the texts its editor saves
  forever,         \* reloading()'s argument forever
  keys,            \* the names bound in the caller's scope when the program starts
  compiled_from,   \* observation: the text the cached fragment was compiled from
  saw_empty        \* observation: some read of load_file found the file empty

vars == << file, edits, prompts, mode, every, seq, pc, i, source, compiled_body,
           itervars, loop_target, loop_id, unique, caller_env, func, reloads, calls, retrying,
           results, exc, returned, result, out, loaded_at, stale, last_prompt,
           read_at, failures, last_assign, program, forever, keys,
           compiled_from, saw_empty >>

ext == << mode, every, seq, forever, program, keys >>

loopvars == << i, compiled_body, itervars, loop_target, loop_id, unique >>

funcvars == << func, reloads, calls, retrying, results >>

\* chain(caller_locals.keys(), caller_globals.keys())
ScopeKeys == keys \o keys

\* the caller programs: the plain one, one entered with further names in
\* scope, one with several reloading loops, one with several definitions of
\* f, one whose edits leave a fragment that does not compile on its own, and
\* one with other `for` statements beside the reloading loop
Programs == {"plain", "names", "loops", "defs", "compile", "others"}

ModesOf(p) ==
  CASE p = "names" -> {"loop"}
    [] p = "loops" -> {"loop"}
    [] p = "others" -> {"loop"}
    [] p = "defs" -> {"func"}
    [] OTHER -> {"loop", "func"}

KeysOf(p) == IF p = "names" THEN KeyLists \ {ModuleKeys} ELSE {ModuleKeys}

\* the texts the editor of the program saves
TextsOf(p) ==
  CASE p = "plain" -> TextIds
    [] p = "names" -> {"A", "KEEP", "FAIL"}
    [] p = "loops" -> {"TWINS", "SHIFT", "MOVED"}
    [] p = "defs" -> {"A", "NEAR", "DECO", "ATTR"}
    [] p = "compile" -> {"A", "CONT", "FCONT"}
    [] p = "others" -> {"A", "ITEMS", "OTHERS"}
    [] p = "ever" -> {"EVER", "EVER_FAIL", "EVER_CONT", "BAD", "NOLOOP"}

AllTexts == UNION {TextsOf(p) : p \in Programs}

\* every name a scope may hold: the callers' names, the loop targets, and the
\* names the engine injects
EnvNames ==
  UNION {{k[n] : n \in 1..Len(k)} \cup {unique_name(k \o k)} : k \in KeyLists}
    \cup {"epoch", "step", "a", "b", "c", "f"}

InitEnv ==
  [n \in EnvNames |->
     CASE n \notin {keys[k] : k \in 1..Len(keys)} -> Undef
       [] n = "reloading" -> "<function reloading>"
       [] n = "fpath" -> "DON'T CHANGE ME"
       [] n = "state" -> "INIT"
       [] OTHER -> "the caller's " \o n]

\* the text the program was started from
StartText ==
  CASE program = "loops" -> "TWINS"
    [] program = "ever" -> "EVER"
    [] OTHER -> "A"

Init ==
  /\ program \in Programs
  /\ keys \in KeysOf(program)
  /\ file = StartText
  /\ edits = 0
  /\ prompts = 0
  /\ mode \in ModesOf(program)
  /\ every \in 1..MaxEvery
  /\ seq \in SeqsUpTo(MaxLen)
  /\ forever = FALSE
  /\ pc = IF mode = "loop" THEN "call" ELSE "decorate"
  /\ i = 0
  /\ source = ""
  /\ compiled_body = << >>
  /\ itervars = << >>
  /\ loop_target = Name("")
  /\ loop_id = "None"
  /\ unique = ""
  /\ caller_env = InitEnv
  /\ func = None
  /\ reloads = 0
  /\ calls = 0
  /\ retrying = FALSE
  /\ results = << >>
  /\ exc = "none"
  /\ returned = [kind |-> "none", items |-> << >>]
  /\ result = "running"
  /\ out = << >>
  /\ loaded_at = -1
  /\ stale = FALSE
  /\ last_prompt = NoPrompt
  /\ read_at = -1
  /\ failures = 0
  /\ last_assign = InitEnv
  /\ compiled_from = ""
  /\ saw_empty = FALSE

(***************************************************************************)
(* The editor and the operator.                                            *)
(***************************************************************************)
\* the editor saves another text over the file
EditFile ==
  /\ pc # "done"
  /\ edits < MaxEdits
  /\ \E t \in TextsOf(program) \ {file} : file' = t
  /\ edits' = edits + 1
  /\ UNCHANGED << saw_empty, compiled_from, prompts, ext, pc, loopvars, source, caller_env, funcvars, exc,
                  returned, result, out, loaded_at, stale, last_prompt,
                  read_at, failures, last_assign >>

\* the current cycle: the iteration index, or the number of the call
Cycle == IF mode = "loop" THEN i ELSE calls

Prompted(cause, answer) == [cause |-> cause, answer |-> answer, cycle |-> Cycle, exc |-> exc]

(***************************************************************************)
(* reloading() and _reloading_loop.                                        *)
(***************************************************************************)
\* `if forever: return _reloading_loop(iter(int, 1), every=every)`, reached
\* when fn_or_seq is falsy: the loop runs over iter(int, 1)
Endless == seq = << >> /\ forever

\* iter(int, 1) yields int() = 0 until it yields 1
Element(k) == IF Endless THEN "0" ELSE seq[k]

\* variant: the loop over no iterable ends at once
Exhausted_finite(n) == n >= Len(seq)

\* whether enumerate(seq) has no element of index n
Exhausted(n) == ~Endless /\ n >= Len(seq)

\* reloading(seq, every, forever): a truthy iterable, or forever, enters
\* _reloading_loop, which sets up unique and loop_id; otherwise the call falls
\* through to the decorator partial
Reloading ==
  /\ pc = "call"
  /\ IF seq # << >> \/ forever
     THEN /\ unique' = unique_name(ScopeKeys)
          /\ loop_id' = "None"
          /\ pc' = "for"
          /\ UNCHANGED returned
     ELSE /\ returned' = Decorator
          /\ pc' = "caller_for"
          /\ UNCHANGED << unique, loop_id >>
  /\ UNCHANGED << saw_empty, compiled_from, file, edits, prompts, ext, i, source, compiled_body, itervars, loop_target,
                  caller_env, funcvars, exc, result, out, loaded_at, stale, last_prompt,
                  read_at, failures, last_assign >>

\* variant: the wrapper hands the iterable itself back
LoopResult_seq(s) == s

\* what _reloading_loop returns when the iterable is exhausted: `return []`
LoopResult(s) == << >>

\* `for i, itervar_values in enumerate(seq)` and the cadence test `i % every == 0`
\* variant: the source is loaded once, at the first element
ReloadDue_first_only(n) == n = 0

\* variant: the source is loaded at every element
ReloadDue_always(n) == TRUE

\* variant: the source is never loaded
ReloadDue_never(n) == FALSE

ReloadDue(n) == n % every = 0

ForNext ==
  /\ pc = "for"
  /\ Endless => i < MaxIter
  /\ IF Exhausted(i)
     THEN /\ returned' = List(LoopResult(seq))
          /\ pc' = "caller_for"
     ELSE /\ pc' = IF ReloadDue(i) THEN "load" ELSE "bind"
          /\ UNCHANGED returned
  /\ last_prompt' = NoPrompt
  /\ UNCHANGED << saw_empty, compiled_from, file, edits, prompts, ext, loopvars, source, caller_env, funcvars,
                  exc, result, out, loaded_at, stale,
                  read_at, failures, last_assign >>

\* variant: load_file returns whatever its first read found
ReadAgain_never(src) == FALSE

\* `while src == ""`: whether the text just read sends load_file round again
ReadAgain(src) == Content(src).empty

\* load_file: one read of the file; an empty read is repeated
LoadFile ==
  /\ pc = "load"
  /\ IF ReadAgain(file)
     THEN saw_empty' = TRUE /\ UNCHANGED << source, pc, read_at >>
     ELSE source' = file /\ pc' = "parse" /\ read_at' = Cycle /\ UNCHANGED saw_empty
  /\ UNCHANGED << compiled_from, file, edits, prompts, ext, loopvars, caller_env, funcvars, exc,
                  returned, result, out, loaded_at, stale, last_prompt,
                  failures, last_assign >>

\* parse_file_until_successful: ast.parse of the text just read
ParseFile ==
  /\ pc = "parse"
  /\ IF Content(source).ok
     THEN /\ pc' = IF mode = "loop" THEN "locate" ELSE "isolate"
          /\ UNCHANGED exc
     ELSE /\ exc' = "SyntaxError"
          /\ pc' = "prompt_parse"
  /\ UNCHANGED << saw_empty, compiled_from, file, edits, prompts, ext, loopvars, source, caller_env, funcvars,
                  returned, result, out, loaded_at, stale, last_prompt,
                  read_at, failures, last_assign >>

\* where an exception raised inside the engine goes: in loop mode into the bare
\* except of reloading(), which the call of line 126 does not stand in; in
\* function mode to the caller of the wrapper
Propagate(e) ==
  IF mode = "loop" /\ ~Endless
  THEN /\ exc' = e
       /\ pc' = "except"
       /\ UNCHANGED result
  ELSE /\ exc' = "none"
       /\ result' = e
       /\ pc' = "done"

\* variant: the text that failed is parsed again
AfterParsePrompt_stale == "parse"

\* `handle_exception(path); source = load_file(path)`: where the engine goes on
\* after the prompt of a parse error
AfterParsePrompt == "load"

\* handle_exception in the except clause of parse_file_until_successful; its
\* return value is not looked at, the file is read again
PromptParse ==
  /\ pc = "prompt_parse"
  /\ Endless \/ prompts < MaxPrompts
  /\ prompts' = IF Endless THEN prompts ELSE prompts + 1
  /\ \E signal \in Inputs :
       /\ last_prompt' = Prompted("parse", handle_exception(signal))
       /\ IF handle_exception(signal) = "raise"
          THEN Propagate("Exception")
          ELSE exc' = "none" /\ pc' = AfterParsePrompt /\ UNCHANGED result
  /\ UNCHANGED << saw_empty, compiled_from, file, edits, ext, loopvars, source, caller_env, funcvars,
                  returned, out, loaded_at, stale,
                  read_at, failures, last_assign >>

\* get_loop_code after a successful parse: locate, compile, format the target;
\* the try block has one clause, `except LookupError`
LocateLoop ==
  /\ pc = "locate"
  /\ LET r == isolate_loop_body_and_get_itervars(Content(source), CallLine, loop_id)
         raised == IF ~r.found THEN r.raised
                   ELSE IF ~CompilesAsModule(r.body) THEN "SyntaxError"
                   ELSE "none"
     IN IF raised = "none"
        THEN /\ compiled_body' = r.body
             /\ itervars' = format_itervars(r.target)
             /\ loop_target' = r.target
             /\ loop_id' = r.id
             /\ loaded_at' = i
             /\ stale' = FALSE
             /\ compiled_from' = source
             /\ pc' = "bind"
             /\ UNCHANGED << exc, result >>
        ELSE /\ IF Catches("LookupError", raised)
                THEN exc' = raised /\ pc' = "prompt_locate" /\ UNCHANGED result
                ELSE Propagate(raised)
             /\ UNCHANGED << compiled_body, itervars, loop_target, loop_id, loaded_at, stale,
                             compiled_from >>
  /\ UNCHANGED << saw_empty, file, edits, prompts, ext, i, unique, source, caller_env, funcvars,
                  returned, out, last_prompt,
                  read_at, failures, last_assign >>

\* variant: the loop goes on to its body without a located fragment
AfterLocatePrompt_swallow == "bind"

\* `except LookupError: handle_exception(fpath)` inside `while True`: where the
\* engine goes on after the prompt of a locate error
AfterLocatePrompt == "load"

\* handle_exception in the except LookupError clause of get_loop_code; its
\* return value is not looked at, the file is read and parsed again
PromptLocate ==
  /\ pc = "prompt_locate"
  /\ Endless \/ prompts < MaxPrompts
  /\ prompts' = IF Endless THEN prompts ELSE prompts + 1
  /\ \E signal \in Inputs :
       /\ last_prompt' = Prompted("locate", handle_exception(signal))
       /\ IF handle_exception(signal) = "raise"
          THEN Propagate("Exception")
          ELSE exc' = "none" /\ pc' = AfterLocatePrompt /\ UNCHANGED result
  /\ UNCHANGED << saw_empty, compiled_from, file, edits, ext, loopvars, source, caller_env, funcvars,
                  returned, out, loaded_at, stale,
                  read_at, failures, last_assign >>

\* variant: the body runs against a copy of the scope, which is then dropped
ExecInCopy(code, scope, printed) == [Run(code, scope, printed) EXCEPT !.env = scope]

\* exec(compiled_body, caller_globals, caller_locals): the body runs against the
\* caller's own dictionaries, so the scope after it is the one the body left
ExecInCaller(code, scope, printed) == Run(code, scope, printed)


\* the values the loop may hand out that can be iterated, by their repr, and
\* what iterating them yields; every other value is an object that cannot
Items(value) ==
  CASE value = "(1,)" -> << "1" >>
    [] value = "(2,)" -> << "2" >>
    [] value = "(1, 2)" -> << "1", "2" >>
    [] value = "(2, 3)" -> << "2", "3" >>
    [] value = "(1, 2, 3)" -> << "1", "2", "3" >>
    [] value = "(1, (2,))" -> << "1", "(2,)" >>
    [] value = "(1, (2, 3))" -> << "1", "(2, 3)" >>
    [] value = "((1,), 2)" -> << "(1,)", "2" >>
    [] value = "((1, 2),)" -> << "(1, 2)" >>
    [] OTHER -> << >>

Iterable(value) == Items(value) # << >>

\* Python's parse of an assignment target: a comma-separated list is a tuple,
\* a parenthesised list of one item without a comma is that item
RECURSIVE ParseList(_)
RECURSIVE ParseItem(_)
ParseItem(toks) ==
  IF Head(toks) = "("
  THEN LET r == ParseList(Tail(toks))
       IN [node |-> IF Len(r.items) = 1 THEN r.items[1] ELSE Tuple(r.items),
           rest |-> Tail(r.rest)]
  ELSE [node |-> Name(Head(toks)), rest |-> Tail(toks)]

ParseList(toks) ==
  IF toks = << >> \/ Head(toks) = ")"
  THEN [items |-> << >>, rest |-> toks]
  ELSE LET f == ParseItem(toks)
       IN IF f.rest # << >> /\ Head(f.rest) = ", "
          THEN LET r == ParseList(Tail(f.rest))
               IN [items |-> << f.node >> \o r.items, rest |-> r.rest]
          ELSE [items |-> << f.node >>, rest |-> f.rest]

ParseTarget(toks) ==
  LET r == ParseList(toks)
  IN IF Len(r.items) = 1 THEN r.items[1] ELSE Tuple(r.items)

\* Python's assignment of value to a target node: a name is bound; a tuple
\* takes the value apart (TypeError if it cannot be iterated, ValueError if
\* the count differs) and assigns the parts from left to right
RECURSIVE Unpack(_, _, _)
RECURSIVE UnpackSeq(_, _, _)
Unpack(node, value, scope) ==
  IF node.type = "Name" THEN [exc |-> "none", env |-> [scope EXCEPT ![node.id] = value]]
  ELSE IF ~Iterable(value) THEN [exc |-> "TypeError", env |-> scope]
  ELSE IF Len(Items(value)) # Len(node.elts) THEN [exc |-> "ValueError", env |-> scope]
  ELSE UnpackSeq(node.elts, Items(value), scope)

UnpackSeq(elts, items, scope) ==
  IF elts = << >> THEN [exc |-> "none", env |-> scope]
  ELSE LET r == Unpack(Head(elts), Head(items), scope)
       IN IF r.exc = "none" THEN UnpackSeq(Tail(elts), Tail(items), r.env) ELSE r

\* caller_locals[unique] = itervar_values; exec(itervars + " = " + unique)
BindTarget(scope, name, toks, value) ==
  LET injected == [scope EXCEPT ![name] = value]
  IN IF toks = << >> THEN [exc |-> "SyntaxError", env |-> injected]
     ELSE Unpack(ParseTarget(toks), injected[name], injected)

\* lines 310-316: inject the value, unpack it, run the body; the unpacking
\* stands before the try block, the body in it
ExecBody ==
  /\ pc = "bind"
  /\ LET bound == BindTarget(caller_env, unique, itervars, Element(i + 1))
         r == ExecInCaller(compiled_body, bound.env, out)
     IN IF bound.exc # "none"
        THEN /\ caller_env' = bound.env
             /\ Propagate(bound.exc)
             /\ UNCHANGED << out, last_assign, failures, i, stale >>
        ELSE /\ out' = r.out
             /\ caller_env' = r.env
             /\ last_assign' = Replay(r.log, last_assign)
             /\ failures' = IF r.exc = "none" THEN failures ELSE failures + 1
             /\ IF r.exc = "none"
                THEN /\ i' = i + 1
                     /\ pc' = "for"
                     /\ UNCHANGED << exc, stale, result >>
                ELSE /\ exc' = r.exc
                     /\ stale' = TRUE
                     /\ pc' = "prompt_exec"
                     /\ UNCHANGED << i, result >>
  /\ last_prompt' = NoPrompt
  /\ UNCHANGED << saw_empty, compiled_from, file, edits, prompts, ext, compiled_body, itervars, loop_target, loop_id, unique,
                  source, funcvars, returned, loaded_at,
                  read_at >>

\* handle_exception in the except clause of the loop; its return value is not
\* looked at, the loop goes on with the next element
PromptExec ==
  /\ pc = "prompt_exec"
  /\ Endless \/ prompts < MaxPrompts
  /\ prompts' = IF Endless THEN prompts ELSE prompts + 1
  /\ \E signal \in Inputs :
       /\ last_prompt' = Prompted("exec", handle_exception(signal))
       /\ IF handle_exception(signal) = "raise"
          THEN Propagate("Exception") /\ UNCHANGED i
          ELSE exc' = "none" /\ i' = i + 1 /\ pc' = "for" /\ UNCHANGED result
  /\ UNCHANGED << saw_empty, compiled_from, file, edits, ext, compiled_body, itervars, loop_target, loop_id, unique, source,
                  caller_env, funcvars, returned, out, loaded_at, stale,
                  read_at, failures, last_assign >>

\* the bare except of reloading(): print the traceback, enter breakpoint();
\* continuing the debugger falls through to `return decorator`, quitting it
\* raises BdbQuit
Except ==
  /\ pc = "except"
  /\ \E cmd \in {"continue", "quit"} :
       IF cmd = "continue"
       THEN /\ returned' = Decorator
            /\ pc' = "caller_for"
            /\ UNCHANGED result
       ELSE /\ result' = "BdbQuit"
            /\ pc' = "done"
            /\ UNCHANGED returned
  /\ exc' = "none"
  /\ UNCHANGED << saw_empty, compiled_from, file, edits, prompts, ext, loopvars, source, caller_env, funcvars,
                  out, loaded_at, stale, last_prompt,
                  read_at, failures, last_assign >>

\* the caller's own `for epoch in <returned>:` with the body it was compiled with
RECURSIVE RunFor(_, _, _, _)
RunFor(items, body, scope, printed) ==
  IF items = << >>
  THEN [env |-> scope, out |-> printed, exc |-> "none", ret |-> NoneValue, log |-> << >>]
  ELSE LET r == Run(body, [scope EXCEPT !["epoch"] = Head(items)], printed)
       IN IF r.exc = "none"
          THEN LET rest == RunFor(Tail(items), body, r.env, r.out)
               IN [rest EXCEPT !.log = r.log \o rest.log]
          ELSE r

CallerFor ==
  /\ pc = "caller_for"
  /\ IF returned.kind = "no_iter_partial"
     THEN /\ result' = "TypeError"
          /\ UNCHANGED << caller_env, out, last_assign >>
     ELSE LET r == RunFor(returned.items, Content(StartText).fors[1].body, caller_env, out)
          IN /\ result' = IF r.exc = "none" THEN "ok" ELSE r.exc
             /\ caller_env' = r.env
             /\ out' = r.out
             /\ last_assign' = Replay(r.log, last_assign)
  /\ pc' = "done"
  /\ UNCHANGED << saw_empty, compiled_from, file, edits, prompts, ext, loopvars, source, funcvars, exc,
                  returned, loaded_at, stale, last_prompt,
                  read_at, failures >>

(***************************************************************************)
(* _reloading_function.wrapped.                                            *)
(***************************************************************************)
\* what the name f is bound to: the wrapper, or a function a `def f` made
Wrapper == "<function wrapped>"

Defined == "<function f>"

\* _reloading_function, line 611: caller_locals[fn.__name__] = wrapped
ReloadingFunction ==
  /\ pc = "decorate"
  /\ caller_env' = [caller_env EXCEPT !["f"] = Wrapper]
  /\ pc' = "idle"
  /\ UNCHANGED << saw_empty, compiled_from, file, edits, prompts, ext, loopvars, source, funcvars,
                  exc, returned, result, out, loaded_at, stale, last_prompt,
                  read_at, failures, last_assign >>

\* variant: the definition is executed against the caller's own locals, where
\* its `def` binds the name
DefinedInCaller(scope) == [scope EXCEPT !["f"] = Defined]

\* caller_locals_copy = caller_locals.copy(); exec(code, caller_globals,
\* caller_locals_copy): the `def` binds the name in the copy, which is dropped;
\* the caller's locals after it
DefinedInCopy(scope) == scope

\* _reloading_function's default, which reloading() never overrides
reloadOnException == TRUE

\* wrapped(*args), lines 581-591: whether the source is loaded before the call
FirstLoadDue ==
  IF reloadOnException THEN func.isNone ELSE reloads % every = 0

Wrapped ==
  /\ pc = "idle"
  /\ calls < Len(seq)
  /\ retrying' = FALSE
  /\ pc' = IF FirstLoadDue THEN "load" ELSE "invoke"
  /\ reloads' = IF ~reloadOnException /\ FirstLoadDue THEN reloads + 1 ELSE reloads
  /\ last_prompt' = NoPrompt
  /\ UNCHANGED << saw_empty, compiled_from, file, edits, prompts, ext, loopvars, source, caller_env, func, calls,
                  results, exc, returned, result, out, loaded_at, stale,
                  read_at, failures, last_assign >>

\* get_reloaded_function after a successful parse: isolate the definition,
\* compile it, execute it in a copy of the caller's locals and fetch the
\* function; None when no marked definition is found.  In the except clause
\* the result is `... or state["func"]`.  Neither call stands in a try block
\* of its own: what the walk or compile raises leaves the wrapper
GetReloadedFunction ==
  /\ pc = "isolate"
  /\ LET r == isolate_function_def("f", Content(source), DefLine)
         fresh == IF r.found THEN Function(r.body, r.decorator_list) ELSE None
         raised == IF r.raised # "none" THEN r.raised
                   ELSE IF r.found /\ ~CompilesAsDef(r.body) THEN "SyntaxError"
                   ELSE "none"
     IN IF raised = "none"
        THEN /\ func' = IF retrying /\ fresh.isNone THEN func ELSE fresh
             /\ loaded_at' = IF r.found THEN calls ELSE loaded_at
             /\ stale' = IF r.found THEN FALSE ELSE stale
             /\ compiled_from' = IF r.found THEN source ELSE compiled_from
             /\ caller_env' = IF r.found THEN DefinedInCopy(caller_env) ELSE caller_env
             /\ pc' = "invoke"
             /\ UNCHANGED << exc, result >>
        ELSE /\ Propagate(raised)
             /\ UNCHANGED << func, loaded_at, stale, compiled_from, caller_env >>
  /\ UNCHANGED << saw_empty, file, edits, prompts, ext, loopvars, source, reloads, calls,
                  retrying, results, returned, out, last_prompt,
                  read_at, failures, last_assign >>

\* func(*args): the body runs in the function's own scope, with its parameter
\* bound, over the caller's globals
CallFunction(f, arg, scope, printed) ==
  IF f.isNone
  THEN [env |-> scope, out |-> printed, exc |-> "TypeError", ret |-> NoneValue,
        log |-> << >>]
  ELSE Run(f.body, [scope EXCEPT !["epoch"] = arg], printed)

\* lines 592-602: one attempt of the call
Invoke ==
  /\ pc = "invoke"
  /\ LET r == CallFunction(func, seq[calls + 1], caller_env, out)
     IN /\ out' = r.out
        /\ failures' = IF r.exc = "none" THEN failures ELSE failures + 1
        /\ IF r.exc = "none"
           THEN /\ results' = Append(results, r.ret)
                /\ calls' = calls + 1
                /\ pc' = "idle"
                /\ UNCHANGED << exc, stale >>
           ELSE /\ exc' = r.exc
                /\ stale' = ~func.isNone
                /\ pc' = "prompt_call"
                /\ UNCHANGED << results, calls >>
  /\ last_prompt' = NoPrompt
  /\ UNCHANGED << saw_empty, compiled_from, file, edits, prompts, ext, loopvars, source, caller_env, func, reloads,
                  retrying, returned, result, loaded_at,
                  read_at, last_assign >>

\* lines 603-609: handle_exception in the except clause of wrapped; True breaks
\* out of the loop and the call returns None, False reloads and tries again
PromptCall ==
  /\ pc = "prompt_call"
  /\ prompts < MaxPrompts
  /\ prompts' = prompts + 1
  /\ \E signal \in Inputs :
       /\ last_prompt' = Prompted("exec", handle_exception(signal))
       /\ CASE handle_exception(signal) = "raise" ->
                 /\ Propagate("Exception")
                 /\ UNCHANGED << results, calls, retrying >>
            [] handle_exception(signal) = "True" ->
                 /\ results' = Append(results, NoneValue)
                 /\ calls' = calls + 1
                 /\ exc' = "none"
                 /\ pc' = "idle"
                 /\ UNCHANGED << result, retrying >>
            [] OTHER ->
                 /\ retrying' = TRUE
                 /\ exc' = "none"
                 /\ pc' = "load"
                 /\ UNCHANGED << result, results, calls >>
  /\ UNCHANGED << saw_empty, compiled_from, file, edits, ext, loopvars, source, caller_env, func, reloads,
                  returned, out, loaded_at, stale,
                  read_at, failures, last_assign >>

\* the caller has made all its calls
CallsDone ==
  /\ pc = "idle"
  /\ calls = Len(seq)
  /\ pc' = "done"
  /\ result' = "ok"
  /\ UNCHANGED << saw_empty, compiled_from, file, edits, prompts, ext, loopvars, source, caller_env, funcvars,
                  exc, returned, out, loaded_at, stale, last_prompt,
                  read_at, failures, last_assign >>

Next ==
  \/ EditFile
  \/ Reloading
  \/ ReloadingFunction
  \/ ForNext
  \/ LoadFile
  \/ ParseFile
  \/ PromptParse
  \/ LocateLoop
  \/ PromptLocate
  \/ ExecBody
  \/ PromptExec
  \/ Except
  \/ CallerFor
  \/ Wrapped
  \/ GetReloadedFunction
  \/ Invoke
  \/ PromptCall
  \/ CallsDone

Spec == Init /\ [][Next]_vars

(***************************************************************************)
(* load_file on its own: the engine stands at the first load_file call of  *)
(* its run, the file holds any text, and the only steps are the reads of   *)
(* load_file and the writes of the editor.  The process keeps running, so  *)
(* a read that can make progress is eventually made.                       *)
(***************************************************************************)
InitLoad ==
  /\ program = "plain"
  /\ keys \in KeysOf(program)
  /\ file \in TextsOf(program)
  /\ edits = 0
  /\ prompts = 0
  /\ mode \in ModesOf(program)
  /\ every \in 1..MaxEvery
  /\ seq \in SeqsUpTo(MaxLen) \ {<< >>}
  /\ forever = FALSE
  /\ pc = "load"
  /\ i = 0
  /\ source = ""
  /\ compiled_body = << >>
  /\ itervars = << >>
  /\ loop_target = Name("")
  /\ loop_id = "None"
  /\ unique = IF mode = "loop" THEN unique_name(ScopeKeys) ELSE ""
  /\ caller_env = IF mode = "loop" THEN InitEnv ELSE [InitEnv EXCEPT !["f"] = Wrapper]
  /\ func = None
  /\ reloads = 0
  /\ calls = 0
  /\ retrying = FALSE
  /\ results = << >>
  /\ exc = "none"
  /\ returned = [kind |-> "none", items |-> << >>]
  /\ result = "running"
  /\ out = << >>
  /\ loaded_at = -1
  /\ stale = FALSE
  /\ last_prompt = NoPrompt
  /\ read_at = -1
  /\ failures = 0
  /\ last_assign = InitEnv
  /\ compiled_from = ""
  /\ saw_empty = FALSE

NextLoad ==
  \/ EditFile
  \/ LoadFile

LoadSpec == InitLoad /\ [][NextLoad]_vars /\ WF_vars(LoadFile)

(***************************************************************************)
(* format_itervars on its own: the engine has located a loop with any of   *)
(* the targets below, formats the target, and runs one iteration with any  *)
(* of the values below; the loop body is `pass`.                           *)
(***************************************************************************)
\* loop targets: a, (a,), (a, b), (a, (b,)), (a, (b, c)), ((a,), b),
\* (a, b, c), ((a, b),)
Targets ==
  { Name("a"),
    Tuple(<< Name("a") >>),
    Tuple(<< Name("a"), Name("b") >>),
    Tuple(<< Name("a"), Tuple(<< Name("b") >>) >>),
    Tuple(<< Name("a"), Tuple(<< Name("b"), Name("c") >>) >>),
    Tuple(<< Tuple(<< Name("a") >>), Name("b") >>),
    Tuple(<< Name("a"), Name("b"), Name("c") >>),
    Tuple(<< Tuple(<< Name("a"), Name("b") >>) >>) }

\* the values the iterable hands out
Values ==
  {"1", "(1,)", "(1, 2)", "(1, 2, 3)", "(1, (2,))", "(1, (2, 3))", "((1,), 2)",
   "((1, 2),)"}

InitFormat ==
  /\ program = "plain"
  /\ keys = ModuleKeys
  /\ file = "A"
  /\ edits = 0
  /\ prompts = 0
  /\ mode = "loop"
  /\ every = 1
  /\ seq \in {<< v >> : v \in Values}
  /\ forever = FALSE
  /\ pc = "format"
  /\ i = 0
  /\ source = ""
  /\ compiled_body = << >>
  /\ itervars = << >>
  /\ loop_target \in Targets
  /\ loop_id = "None"
  /\ unique = unique_name(ScopeKeys)
  /\ caller_env = InitEnv
  /\ func = None
  /\ reloads = 0
  /\ calls = 0
  /\ retrying = FALSE
  /\ results = << >>
  /\ exc = "none"
  /\ returned = [kind |-> "none", items |-> << >>]
  /\ result = "running"
  /\ out = << >>
  /\ loaded_at = 0
  /\ stale = FALSE
  /\ last_prompt = NoPrompt
  /\ read_at = 0
  /\ failures = 0
  /\ last_assign = InitEnv
  /\ compiled_from = ""
  /\ saw_empty = FALSE

\* get_loop_code: itervars = format_itervars(itervars)
FormatTarget ==
  /\ pc = "format"
  /\ itervars' = format_itervars(loop_target)
  /\ pc' = "bind"
  /\ UNCHANGED << saw_empty, compiled_from, file, edits, prompts, ext, i, compiled_body,
                  loop_target, loop_id, unique, source, caller_env, funcvars, exc, returned,
                  result, out, loaded_at, stale, last_prompt, read_at, failures,
                  last_assign >>

NextFormat ==
  \/ FormatTarget
  \/ ExecBody

FormatSpec == InitFormat /\ [][NextFormat]_vars

(***************************************************************************)
(* reloading(forever=True): the loop over the endless sequence, followed   *)
(* for MaxIter elements.  The prompts of an endless loop are not counted.  *)
(* The interpreter keeps running and the operator answers every prompt, so *)
(* every step of the engine that can be taken is eventually taken; the     *)
(* editor is under no obligation.                                          *)
(***************************************************************************)
InitForever ==
  /\ program = "ever"
  /\ keys = ModuleKeys
  /\ file = StartText
  /\ edits = 0
  /\ prompts = 0
  /\ mode = "loop"
  /\ every \in 1..MaxEvery
  /\ seq = << >>
  /\ forever = TRUE
  /\ pc = "call"
  /\ i = 0
  /\ source = ""
  /\ compiled_body = << >>
  /\ itervars = << >>
  /\ loop_target = Name("")
  /\ loop_id = "None"
  /\ unique = ""
  /\ caller_env = InitEnv
  /\ func = None
  /\ reloads = 0
  /\ calls = 0
  /\ retrying = FALSE
  /\ results = << >>
  /\ exc = "none"
  /\ returned = [kind |-> "none", items |-> << >>]
  /\ result = "running"
  /\ out = << >>
  /\ loaded_at = -1
  /\ stale = FALSE
  /\ last_prompt = NoPrompt
  /\ read_at = -1
  /\ failures = 0
  /\ last_assign = InitEnv
  /\ compiled_from = ""
  /\ saw_empty = FALSE

NextForever ==
  \/ EditFile
  \/ Reloading
  \/ ForNext
  \/ LoadFile
  \/ ParseFile
  \/ PromptParse
  \/ LocateLoop
  \/ PromptLocate
  \/ ExecBody
  \/ PromptExec

ForeverSpec ==
  /\ InitForever
  /\ [][NextForever]_vars
  /\ WF_vars(Reloading)
  /\ WF_vars(ForNext)
  /\ WF_vars(LoadFile)
  /\ WF_vars(ParseFile)
  /\ WF_vars(PromptParse)
  /\ WF_vars(LocateLoop)
  /\ WF_vars(PromptLocate)
  /\ WF_vars(ExecBody)
  /\ WF_vars(PromptExec)

TypeOK ==
  /\ file \in TextsOf(program)
  /\ pc \in {"call", "for", "load", "parse", "prompt_parse", "locate", "prompt_locate",
             "bind", "prompt_exec", "except", "caller_for", "idle", "isolate", "invoke",
             "prompt_call", "done", "format", "decorate"}
  /\ i \in 0..(IF Endless THEN MaxIter ELSE Len(seq))
  /\ calls \in 0..Len(seq)

(***************************************************************************)
(* Properties.                                                             *)
(***************************************************************************)
\* the names some statement of some text assigns
AssignedIn(body) == {body[j].name : j \in {j \in 1..Len(body) : body[j].op = "assign"}}

AssignedNames ==
  EnvNames \cap
    UNION {LET fors == Content(t).fors
           IN UNION {AssignedIn(fors[k].body) : k \in 1..Len(fors)} : t \in AllTexts}

\* the names bound before the loop
BoundBefore == {keys[k] : k \in 1..Len(keys)}

\* the names bound before the loop that no body assigns and that are no loop target
Preserved == (BoundBefore \ AssignedNames) \ {"epoch"}

\* the names bound before the loop that a body assigns
Rebound == BoundBefore \cap AssignedNames

\* the tag of the k-th line printed, and the value printed with it
TagOf(k) == out[k][1]

ValueOf(k) == out[k][2]

\* C1: loop mode with cadence 1: when the body of iteration i is about to run,
\* the file was read and the loop located in iteration i, and the cached body is
\* the body of a loop of the text read; no B line is printed before the file is
\* rewritten, and after the one rewrite from A to B no A line follows a B line.
C1_LiveUpdate ==
  (mode = "loop" /\ every = 1) =>
    /\ pc = "bind" =>
         /\ read_at = i
         /\ loaded_at = i
         /\ \E k \in 1..Len(Content(source).fors) :
              /\ Content(source).fors[k].body = compiled_body
              /\ get_loop_id(Content(source).fors[k]) = loop_id
    /\ edits = 0 => \A k \in 1..Len(out) : TagOf(k) # "B"
    /\ (edits <= 1 /\ file = "B") =>
         \A j, k \in 1..Len(out) : j < k => ~(TagOf(j) = "B" /\ TagOf(k) = "A")

C1_Witness ==
  /\ mode = "loop" /\ every = 1 /\ pc = "done" /\ result = "ok"
  /\ edits = 1 /\ file = "B"
  /\ Len(out) >= 2 /\ TagOf(1) = "A" /\ TagOf(Len(out)) = "B"

\* C2: function mode: when invocation k with k mod N = 0 is about to run its
\* first attempt, the source was read again in that invocation.
C2_FunctionReloadsOnCadence ==
  (mode = "func" /\ pc = "invoke" /\ ~retrying /\ calls % every = 0) => read_at = calls

\* C3: a fragment that raised is not executed again before a reload has
\* replaced it.
C3_ReloadAfterFailure ==
  pc \in {"bind", "invoke"} => ~stale

\* C4: every name bound before the loop that no body assigns and that is no
\* loop target keeps its value, whatever the engine injects.
C4_StatePersistence ==
  mode = "loop" => \A n \in Preserved : caller_env[n] = InitEnv[n]

C4_Witness ==
  /\ mode = "loop" /\ pc = "done" /\ result = "ok"
  /\ loaded_at >= 1
  /\ caller_env[unique] # Undef /\ caller_env["epoch"] # Undef
  /\ \E k \in 1..Len(out) : TagOf(k) = "K"

\* C5: a name bound before the loop and assigned by the body holds, in the
\* caller's scope, the value of the last assignment executed: between the
\* iterations, across reloads and after the loop.
C5_RebindVisibility ==
  mode = "loop" => \A n \in Rebound : caller_env[n] = last_assign[n]

C5_Witness ==
  /\ mode = "loop" /\ pc = "done" /\ result = "ok"
  /\ loaded_at >= 1
  /\ Len(out) >= 2 /\ TagOf(1) = "A"
  /\ caller_env["state"] = "CHANGED_B"

\* the places of a cycle at which the engine reloads or executes
Working == {"load", "parse", "prompt_parse", "locate", "prompt_locate", "isolate",
            "bind", "invoke"}

\* C6: after the operator answered an execution error with return (retry), the
\* engine is reloading or executing the same cycle again.
C6_RetrySameCycle ==
  (last_prompt.cause = "exec" /\ last_prompt.answer = "False") =>
     /\ Cycle = last_prompt.cycle
     /\ pc \in Working

\* C7: after the operator answered any prompt with skip, the cycle is
\* abandoned: nothing of it is reloaded or executed any more, the loop stands
\* at its next element, the call has returned None.
C7_SkipAbandons ==
  last_prompt.answer = "True" =>
     /\ pc \notin Working
     /\ Cycle = last_prompt.cycle + 1
     /\ mode = "func" => results[Cycle] = NoneValue

\* C8: after the operator answered a prompt with raise, the wrapper has ended
\* and the caller has the exception of the prompt: the one that caused it, or
\* the Exception handle_exception raises while handling it (which carries the
\* original as its context).
C8_RaisePropagates ==
  last_prompt.answer = "raise" =>
     /\ pc = "done"
     /\ result \in {last_prompt.exc, "Exception"}

\* C9: loop mode, a non-empty iterable, no body fails: the body has run once
\* per element consumed, in order, with the target bound to the element; the
\* wrapper returns an empty list and the caller's statement ends with every
\* element processed once.
C9_IterationSemantics ==
  (mode = "loop" /\ seq # << >> /\ failures = 0) =>
     /\ Len(out) = i
     /\ \A k \in 1..Len(out) : ValueOf(k) = seq[k]
     /\ (pc = "caller_for" /\ returned.kind = "list") =>
           i = Len(seq) /\ returned.items = << >>
     /\ (pc = "done" /\ result = "ok") => i = Len(seq)

C9_Witness ==
  /\ mode = "loop" /\ pc = "done" /\ result = "ok" /\ failures = 0
  /\ Len(seq) >= 2 /\ seq[1] # seq[2]
  /\ Len(out) = Len(seq)
  /\ edits >= 1

\* C10: an empty iterable: the caller's for statement ends normally, with no
\* line printed.
C10_EmptyIterable ==
  (mode = "loop" /\ seq = << >> /\ pc = "done") => (result = "ok" /\ out = << >>)

\* the places of _reloading_loop's own `for` statement
InLoop == {"for", "load", "parse", "prompt_parse", "locate", "prompt_locate", "bind",
           "prompt_exec"}

\* the last iteration index at or before n that is a multiple of the cadence
LastDue(n) == n - (n % every)

\* C11: loop mode with cadence N: when the body of iteration i is about to run,
\* the file was last read and the loop last located in the latest iteration j <= i
\* with j mod N = 0 (iteration i itself when i mod N = 0, so not in iteration i
\* otherwise), and the body about to run is that of a loop of the text read then,
\* whatever the file holds now; and the index i is the number of elements whose
\* body has run to its end or has failed and been answered.
C11_LoopCadence ==
  mode = "loop" =>
    /\ pc = "bind" =>
         /\ read_at = LastDue(i)
         /\ loaded_at = LastDue(i)
         /\ compiled_from = source
         /\ \E k \in 1..Len(Content(compiled_from).fors) :
              Content(compiled_from).fors[k].body = compiled_body
    /\ pc \in InLoop =>
         Len(out) + failures = i + (IF pc = "prompt_exec" THEN 1 ELSE 0)

\* iteration 1 of a cadence-2 loop is about to run the body loaded in iteration
\* 0, which printed its line, while the file holds another text
C11_Witness ==
  /\ mode = "loop" /\ every = 2 /\ pc = "bind" /\ i = 1
  /\ read_at = 0 /\ loaded_at = 0 /\ source = "A" /\ file = "B"
  /\ compiled_body = BodyA /\ Len(out) = 1 /\ TagOf(1) = "A"

\* C12 as stated: when a reload in loop mode finds no candidate loop, the
\* LookupError is on its way out of the loop call to the caller.
C12_LookupErrorRaised ==
  (mode = "loop" /\ exc = "LookupError") => pc = "except"

\* C12, amended: when a reload in loop mode finds no candidate loop (none on the
\* call-site line, none with the recorded identity key), the LookupError is
\* caught inside get_loop_code and the operator is prompted; it never leaves the
\* loop call, neither into reloading()'s handler nor to the caller.
C12_LookupErrorPrompts ==
  mode = "loop" =>
    /\ exc = "LookupError" =>
         /\ pc = "prompt_locate"
         /\ result = "running"
         /\ ~isolate_loop_body_and_get_itervars(Content(source), CallLine, loop_id).found
    /\ pc = "prompt_locate" => exc = "LookupError"
    /\ result # "LookupError"

C12_Witness ==
  /\ mode = "loop" /\ pc = "prompt_locate" /\ exc = "LookupError"
  /\ source = "NOLOOP" /\ loop_id # "None" /\ i >= 1

\* C13: load_file never returns the text of an empty read; a read that finds
\* the file empty is followed by another read, a read that finds it non-empty
\* returns that text at once; a call returns unless the file ends up empty for
\* good, and a call made while the file is and stays empty never returns.
C13_LoadFile ==
  /\ [](pc = "parse" => ~Content(source).empty)
  /\ [][(pc = "load" /\ Content(file).empty) => pc' = "load"]_vars
  /\ [][(pc = "load" /\ pc' # "load") => (~Content(file).empty /\ source' = file)]_vars
  /\ [](pc = "load" => (<>(pc = "parse") \/ <>[]Content(file).empty))
  /\ []((pc = "load" /\ []Content(file).empty) => [](pc = "load"))

\* load_file has returned a text after a read that found the file empty
C13_Witness ==
  /\ pc = "parse" /\ saw_empty /\ edits >= 1
  /\ ~Content(source).empty /\ source = file

\* the reload marker on a definition: `@reloading` or `@reloading(...)`
IsMarker(dec) == dec = Name("reloading") \/ dec = Call("reloading")

\* the definitions of f in a text that carry the marker
MarkedDefs(text) ==
  {k \in 1..Len(Content(text).defs) :
     /\ Content(text).defs[k].name = "f"
     /\ \E j \in 1..Len(Content(text).defs[k].decorator_list) :
          IsMarker(Content(text).defs[k].decorator_list[j])}

\* the tags of the values the calls have returned
ReturnedTags == {results[k][1] : k \in 1..Len(results)}

\* C14: the function the wrapper holds is the body of a definition of f, in the
\* text it was compiled from, that carries the marker and whose line is at the
\* least distance from the line of the original definition among the marked
\* ones; the unmarked definition of f is never run, however close it stands.
C14_NearestMarked ==
  (mode = "func" /\ ~func.isNone) =>
    /\ \E k \in MarkedDefs(compiled_from) :
         /\ Content(compiled_from).defs[k].body = func.body
         /\ \A j \in MarkedDefs(compiled_from) :
              Abs(DefLine - Content(compiled_from).defs[k].lineno)
                <= Abs(DefLine - Content(compiled_from).defs[j].lineno)
    /\ "U" \notin ReturnedTags
    /\ \A k \in 1..Len(out) : TagOf(k) # "U"

\* a call has run the nearer of two marked definitions of a text that also
\* holds an unmarked one, nearer still
C14_Witness ==
  /\ mode = "func" /\ compiled_from = "NEAR" /\ func.body = FnBodyNear
  /\ "N" \in ReturnedTags
  /\ pc = "done" /\ result = "ok"

\* executing `@d1 ... @dn def f` applies the decorators: a marker among them
\* calls reloading(f), which wraps the fresh function in a wrapper of its own
CreatesWrapper(decorator_list) ==
  \E j \in 1..Len(decorator_list) : IsMarker(decorator_list[j])

\* C15: the definition a function reload compiled carries the decorators of the
\* definition it was taken from, in their order, without the markers (bare or
\* called); executing it creates no reload wrapper, so a call of the reloaded
\* function starts no reload of its own.
C15_MarkerStripped ==
  (mode = "func" /\ ~func.isNone) =>
    /\ \E k \in MarkedDefs(compiled_from) :
         /\ Content(compiled_from).defs[k].body = func.body
         /\ func.decorator_list =
              SelectSeq(Content(compiled_from).defs[k].decorator_list,
                        LAMBDA dec : ~IsMarker(dec))
    /\ ~CreatesWrapper(func.decorator_list)

\* a call has run a definition that stood under two markers, one bare and one
\* called, among three other decorators
C15_Witness ==
  /\ mode = "func" /\ compiled_from = "DECO"
  /\ func.decorator_list = << Name("trace"), Call("cache"), Name("timed") >>
  /\ "B" \in ReturnedTags
  /\ pc = "idle"

\* C16: whatever names the caller's scope holds when the loop is entered, the
\* name the engine picks is none of them, also when the scope holds the names
\* the engine picks in a smaller scope; so every name bound at loop entry holds
\* its value of then or the one a loop body assigned it last, never the
\* iteration value the engine injects.
C16_UniqueIsFresh ==
  (mode = "loop" /\ seq # << >> /\ pc # "call") =>
    /\ unique \notin BoundBefore
    /\ \A n \in BoundBefore : Len(n) < Len(unique)
    /\ \A n \in BoundBefore : caller_env[n] = last_assign[n]
    /\ \A n \in BoundBefore : caller_env[n] \notin Elems

\* the loop ran in a scope that held reloading0 and reloading00: the engine
\* wrote the elements under reloading000
C16_Witness ==
  /\ mode = "loop" /\ pc = "done" /\ result = "ok" /\ i = 2
  /\ {"reloading0", "reloading00"} \subseteq BoundBefore
  /\ unique = "reloading000"
  /\ caller_env[unique] = seq[2]
  /\ caller_env["reloading0"] = "the caller's reloading0"

\* the loop run with one load: the fragment located first is bound and run
\* once per element, in order
RECURSIVE RunCached(_, _, _, _, _)
RunCached(items, fragment, name, scope, printed) ==
  IF items = << >> THEN [env |-> scope, out |-> printed]
  ELSE LET r == Run(fragment.body,
                    BindTarget(scope, name, format_itervars(fragment.target), Head(items)).env,
                    printed)
       IN RunCached(Tail(items), fragment, name, r.env, r.out)

\* what the first load of the start text yields
FirstLoad == isolate_loop_body_and_get_itervars(Content(StartText), CallLine, "None")

\* C17: while the file has never been rewritten, the loop with any cadence has
\* printed, after i elements, what one load followed by i executions of the
\* cached fragment prints, and the caller's scope is the one those executions
\* leave (the engine's own name aside); likewise after the loop.
C17_NoOpReload ==
  (mode = "loop" /\ seq # << >> /\ edits = 0 /\ pc \in {"for", "caller_for", "done"}) =>
    LET ref == RunCached(SubSeq(seq, 1, i), FirstLoad, unique, InitEnv, << >>)
    IN /\ out = ref.out
       /\ \A n \in EnvNames \ {unique} : caller_env[n] = ref.env[n]
       /\ pc \in {"caller_for", "done"} => i = Len(seq)

\* a cadence-1 loop in a file with two loops of one header has located its
\* loop a second time, by its identity key, and run both elements
C17_Witness ==
  /\ mode = "loop" /\ program = "loops" /\ every = 1 /\ edits = 0
  /\ pc = "done" /\ result = "ok" /\ i = 2 /\ loaded_at = 1
  /\ loop_id = get_loop_id(Content("TWINS").fors[2])
  /\ Len(out) = 2 /\ TagOf(2) = "T1"

\* the reloading loops of a text that have the identity key id
WithKey(text, id) ==
  {k \in 1..Len(Content(text).fors) :
     /\ Content(text).fors[k].func = "reloading"
     /\ get_loop_id(Content(text).fors[k]) = id}

\* C18: a locate that is handed a recorded identity key, in a text where some
\* reloading loop has that key, selects a loop with that key, whichever loop
\* stands on the call-site line.
C18_IdentityPreferred ==
  (mode = "loop" /\ pc = "locate" /\ loop_id # "None" /\ WithKey(source, loop_id) # {}) =>
    isolate_loop_body_and_get_itervars(Content(source), CallLine, loop_id).id = loop_id

\* C19: a SyntaxError under way in the engine - from ast.parse, or from compile
\* of a located fragment - stands at an operator prompt, after which the reload
\* is tried again; it is not in reloading()'s own handler, and the caller's
\* statement never ends with it.
C19_CompileFailurePrompts ==
  /\ exc = "SyntaxError" => pc = "prompt_parse"
  /\ result # "SyntaxError"

\* C20: function mode: when the wrapper is about to call, what it calls is a
\* function, never None; and if the source was read in this invocation, the
\* text read holds a marked definition of f - a reload that found none has
\* gone to the operator instead of on to a call.
C20_LocateFailureSurfaced ==
  (mode = "func" /\ pc = "invoke") =>
    /\ ~func.isNone
    /\ read_at = calls => MarkedDefs(source) # {}

\* where an exception that leaves the engine is found: reloading()'s handler
\* in loop mode, the caller in function mode
Left == {"except", "done"}

\* C21: a text that failed to parse is never located in, compiled or run; a
\* failed parse leads to one prompt, and the one answer leads to a new read of
\* the file (or, on raise, out of the engine); every parse is of the text the
\* read just before it returned.
C21_ParseRecovery ==
  /\ [](pc \in {"locate", "isolate"} => Content(source).ok)
  /\ [](compiled_from # "" => Content(compiled_from).ok)
  /\ [](pc = "prompt_parse" => (exc = "SyntaxError" /\ ~Content(source).ok))
  /\ [][(pc = "parse" /\ pc' # "parse" /\ ~Content(source).ok)
          => (pc' = "prompt_parse" /\ prompts' = prompts)]_vars
  /\ [][(pc = "prompt_parse" /\ pc' # "prompt_parse")
          => /\ prompts' = prompts + 1
             /\ IF last_prompt'.answer = "raise" THEN pc' \in Left ELSE pc' = "load"]_vars
  /\ [][(pc # "parse" /\ pc' = "parse") => (pc = "load" /\ source' = file)]_vars

\* after a parse error and its prompt, the file was read again and the new
\* text has parsed
C21_Witness ==
  /\ last_prompt.cause = "parse" /\ last_prompt.answer = "False"
  /\ pc \in {"locate", "isolate"}
  /\ source = "B" /\ edits = 2 /\ prompts = 1

\* C22: the answer to the prompt of a locate error leads to a new read of the
\* file (or, on raise, out of the engine), hence to a new parse and a new
\* locate; the loop comes to run a body only from a locate that found a loop,
\* or from the cadence check when no reload is due; and a body about to run in
\* an iteration that reloads is the body of a loop of the text read last.
C22_LocateRecovery ==
  /\ [][(pc = "prompt_locate" /\ pc' # "prompt_locate")
          => IF last_prompt'.answer = "raise" THEN pc' \in Left ELSE pc' = "load"]_vars
  /\ [][(pc # "bind" /\ pc' = "bind")
          => \/ /\ pc = "locate"
                /\ isolate_loop_body_and_get_itervars(Content(source), CallLine, loop_id).found
             \/ pc = "for" /\ ~ReloadDue(i)]_vars
  /\ []((mode = "loop" /\ pc = "bind" /\ ReloadDue(i))
          => /\ loaded_at = i
             /\ compiled_from = source
             /\ \E k \in 1..Len(Content(source).fors) :
                  Content(source).fors[k].body = compiled_body)

\* after a locate error and its prompt the editor has put a loop back, and the
\* iteration is about to run the body of that loop
C22_Witness ==
  /\ mode = "loop" /\ pc = "bind"
  /\ last_prompt.cause = "locate" /\ last_prompt.answer = "False"
  /\ source = "B" /\ compiled_body = BodyB /\ loaded_at = i /\ edits = 2

\* a text without its `for` statements that are no reloading loops
OnlyReloading(tree) ==
  [tree EXCEPT !.fors =
     SelectSeq(tree.fors,
               LAMBDA n : n.iter = "Call" /\ n.functype = "Name" /\ n.func = "reloading")]

\* C23: what a locate yields - the loop selected, or the failure - is what it
\* yields on the same text stripped of every `for` statement that is no
\* reloading loop.
C23_UnrelatedLoopsIgnored ==
  (mode = "loop" /\ pc = "locate") =>
    isolate_loop_body_and_get_itervars(Content(source), CallLine, loop_id)
      = isolate_loop_body_and_get_itervars(OnlyReloading(Content(source)), CallLine, loop_id)

\* what the caller's own `for <target> in ...` does with the first value
Original == Unpack(loop_target, seq[1], [InitEnv EXCEPT ![unique] = seq[1]])

\* C24: whenever the loop's own target can take the value apart, the
\* assignment to the formatted target succeeds too and leaves every name
\* bound as the loop's own target would.
C24_TargetFormatted ==
  (pc \in {"for", "except"} /\ Original.exc = "none") =>
    (pc = "for" /\ caller_env = Original.env)

\* C25: in function mode, once the decorator has returned, the caller's scope
\* binds f to the wrapper in every state; the only step that changes the
\* caller's scope is the decorator's binding of f to the wrapper.
C25_WrapperBinding ==
  /\ []((mode = "func" /\ pc # "decorate") => caller_env["f"] = Wrapper)
  /\ [][(mode = "func" /\ caller_env' # caller_env)
          => (pc = "decorate" /\ caller_env' = [caller_env EXCEPT !["f"] = Wrapper])]_vars

\* the second call is about to run the function reloaded from text B after
\* the first load from text A, a failure and the operator's return
C25_Witness ==
  /\ mode = "func" /\ pc = "invoke" /\ retrying /\ reloads = 0
  /\ last_prompt.cause = "exec" /\ last_prompt.answer = "False"
  /\ compiled_from = "B" /\ func = Function(FnBodyB, << >>)
  /\ caller_env["f"] = Wrapper /\ edits = 2

\* the loops of a text that the three values of a reload can all come from
Origins(text) ==
  {k \in 1..Len(Content(text).fors) :
     /\ Content(text).fors[k].body = compiled_body
     /\ get_loop_id(Content(text).fors[k]) = loop_id
     /\ format_itervars(Content(text).fors[k].target) = itervars
     /\ Content(text).fors[k].target = loop_target}

\* C26: in loop mode, once a reload has succeeded, the text it read holds a
\* reloading loop whose body is the cached body, whose key is the recorded
\* key and whose target formats to the recorded target string; the three
\* change only in the step of a successful locate, which takes them from
\* the text just read.
C26_ReloadStateConsistent ==
  /\ []((mode = "loop" /\ loaded_at >= 0) => Origins(compiled_from) # {})
  /\ []((mode = "loop" /\ loaded_at < 0)
         => (compiled_body = << >> /\ itervars = << >> /\ loop_id = "None"))
  /\ [][(mode = "loop" /\ << compiled_body, itervars, loop_id >>' # << compiled_body, itervars, loop_id >>)
          => (pc = "locate" /\ pc' = "bind" /\ compiled_from' = source /\ loaded_at' = i)]_vars

\* the loop located first by its line in TWINS was located again in SHIFT,
\* where another loop stands on that line: body, key and target are those of
\* that loop, and its body has run with its target bound
C26_Witness ==
  /\ mode = "loop" /\ program = "loops" /\ pc = "for" /\ i = 2 /\ loaded_at = 1
  /\ compiled_from = "SHIFT"
  /\ compiled_body = BodyY /\ itervars = << "step" >>
  /\ loop_id = get_loop_id(Content("SHIFT").fors[1])
  /\ Len(out) = 2 /\ TagOf(1) = "T1" /\ TagOf(2) = "Y" /\ ValueOf(2) = seq[2]

\* the places at which a body is about to run
BodyStart == {"bind", "invoke"}

\* C27: a loop body is about to run only with a fragment compiled by a
\* completed reload, that of the iteration itself when a reload was due in
\* it, and a function only when one was loaded and, within a retried call,
\* after the file was read in that call; a body starts only from a completed
\* locate or from a cadence check that found no reload due; output appears
\* only in body steps; a reload starts only from the cadence check or from a
\* prompt, never from a body that has not ended.
C27_Ordering ==
  /\ []((mode = "loop" /\ pc = "bind")
         => (compiled_from # "" /\ loaded_at = LastDue(i) /\ exc = "none"))
  /\ []((mode = "func" /\ pc = "invoke" /\ ~func.isNone)
         => (compiled_from # "" /\ loaded_at >= 0 /\ exc = "none"))
  /\ []((mode = "func" /\ pc = "invoke" /\ (func.isNone \/ retrying)) => read_at = calls)
  /\ [][(pc' \in BodyStart /\ pc # pc')
          => \/ pc \in {"locate", "isolate"}
             \/ pc = "for" /\ ~ReloadDue(i)
             \/ pc = "idle" /\ ~FirstLoadDue]_vars
  /\ [][(out' # out) => pc \in BodyStart \cup {"caller_for"}]_vars
  /\ [][(pc' = "load" /\ pc # "load")
          => /\ out' = out
             /\ \/ pc = "for" /\ ReloadDue(i)
                \/ pc = "idle" /\ FirstLoadDue
                \/ pc \in {"prompt_parse", "prompt_locate", "prompt_call"}]_vars

\* the first call is about to run the function loaded from text B after two
\* parse failures and two prompts; nothing has been printed yet
C27_Witness ==
  /\ mode = "func" /\ pc = "invoke" /\ calls = 0 /\ ~func.isNone /\ ~retrying
  /\ prompts = 2 /\ last_prompt.cause = "parse"
  /\ compiled_from = "B" /\ loaded_at = 0 /\ out = << >>

\* how many executions of the loop body have been started
Executed == IF pc = "prompt_exec" THEN i + 1 ELSE i

NeverRaise == [](last_prompt.answer # "raise")

\* a reload of the file as it stands would hand the loop a fragment
Reloadable ==
  LET r == isolate_loop_body_and_get_itervars(Content(file), CallLine, loop_id)
  IN Content(file).ok /\ r.found /\ CompilesAsModule(r.body)

\* a reload of the file as it stands would raise past the operator prompt
Fatal ==
  LET r == isolate_loop_body_and_get_itervars(Content(file), CallLine, loop_id)
  IN Content(file).ok /\ ~Catches("LookupError", IF r.found THEN "SyntaxError" ELSE r.raised)
      /\ ~Reloadable

\* the call has not returned a value: it is running or an exception left it
OnlyByException ==
  /\ returned.kind = "none"
  /\ pc # "caller_for"
  /\ pc = "done" => result \notin {"ok", "running"}

====
